---- MODULE Spec2Model ----
(***************************************************************************)
(* Windows 11 release detection: the release reconciliation engine of      *)
(* scripts/release_detector.py and the browser extraction session and      *)
(* user-agent rotation of scripts/microsoft_direct_downloader.py.          *)
(*                                                                         *)
(* Python strings are modelled as sequences of one-character strings, so   *)
(* that splitting, integer parsing, pattern search, case folding and       *)
(* formatting are computed the way the code computes them.                 *)
(***************************************************************************)
EXTENDS Integers, Sequences, FiniteSets, TLC

(***************************************************************************)
(* Characters and strings                                                  *)
(***************************************************************************)
DigitChars == <<"0","1","2","3","4","5","6","7","8","9">>
UpperChars == <<"A","B","C","D","E","F","G","H","I","J","K","L","M","N","O","P","Q","R","S","T","U","V","W","X","Y","Z">>
LowerChars == <<"a","b","c","d","e","f","g","h","i","j","k","l","m","n","o","p","q","r","s","t","u","v","w","x","y","z">>

DigitSet == {DigitChars[i] : i \in 1..Len(DigitChars)}
UpperSet == {UpperChars[i] : i \in 1..Len(UpperChars)}
LowerSet == {LowerChars[i] : i \in 1..Len(LowerChars)}

DigitTable == [c \in DigitSet |-> (CHOOSE i \in 1..Len(DigitChars) : DigitChars[i] = c) - 1]
LowerTable == [c \in UpperSet |-> LowerChars[CHOOSE i \in 1..Len(UpperChars) : UpperChars[i] = c]]
UpperTable == [c \in LowerSet |-> UpperChars[CHOOSE i \in 1..Len(LowerChars) : LowerChars[i] = c]]

\* the regular-expression class \d
IsDigit(c) == c \in DigitSet

DigitVal(c) == DigitTable[c]

\* str.lower() on one character
LowerChar(c) == IF c \in UpperSet THEN LowerTable[c] ELSE c

\* str.upper() on one character
UpperChar(c) == IF c \in LowerSet THEN UpperTable[c] ELSE c

LowerStr(s) == [i \in 1..Len(s) |-> LowerChar(s[i])]
UpperStr(s) == [i \in 1..Len(s) |-> UpperChar(s[i])]

\* s[i..i+Len(t)-1] = t
MatchAt(s, i, t) ==
    /\ i >= 1
    /\ i + Len(t) - 1 <= Len(s)
    /\ \A k \in 1..Len(t) : s[i + k - 1] = t[k]

\* the Python test `t in s` on strings
Contains(s, t) == \E i \in 1..(Len(s) + 1) : MatchAt(s, i, t)

\* int(s) succeeds: a non-empty run of decimal digits (the strings drawn here
\* carry no sign, blank or underscore, the other forms int() accepts)
IntOk(s) == Len(s) > 0 /\ \A i \in 1..Len(s) : IsDigit(s[i])

RECURSIVE StrToInt(_)
StrToInt(s) ==
    IF s = <<>> THEN 0
    ELSE 10 * StrToInt(SubSeq(s, 1, Len(s) - 1)) + DigitVal(s[Len(s)])

RECURSIVE SplitAcc(_, _, _)
SplitAcc(s, cur, acc) ==
    IF s = <<>> THEN Append(acc, cur)
    ELSE IF Head(s) = "." THEN SplitAcc(Tail(s), <<>>, Append(acc, cur))
    ELSE SplitAcc(Tail(s), Append(cur, Head(s)), acc)

\* build.split('.')
SplitDot(s) == SplitAcc(s, <<>>, <<>>)

(***************************************************************************)
(* BuildComparator: ReleaseDetector._compare_builds                        *)
(***************************************************************************)
\* mutant: equal tuples count as greater
TupleGreaterOrEqual(x, y) == x[1] > y[1] \/ (x[1] = y[1] /\ x[2] >= y[2])

\* parse_build raises ValueError unless both segments it reads are integers
ParseRaises(build) ==
    LET parts == SplitDot(build)
    IN  \/ ~IntOk(parts[1])
        \/ (Len(parts) > 1 /\ ~IntOk(parts[2]))

\* mutant: the segment after the dot is ignored
parse_major_only(build) == <<StrToInt(SplitDot(build)[1]), 0>>

parse_build(build) ==
    LET parts == SplitDot(build)
    IN  <<StrToInt(parts[1]), IF Len(parts) > 1 THEN StrToInt(parts[2]) ELSE 0>>

\* Python's ordering of 2-tuples
TupleGreater(x, y) == x[1] > y[1] \/ (x[1] = y[1] /\ x[2] > y[2])

_compare_builds(build1, build2) ==
    IF ParseRaises(build1) \/ ParseRaises(build2) THEN 0
    ELSE LET b1 == parse_build(build1)
             b2 == parse_build(build2)
         IN  IF TupleGreater(b1, b2) THEN 1
             ELSE IF TupleGreater(b2, b1) THEN -1
             ELSE 0

(***************************************************************************)
(* Version dedup: ReleaseDetector._deduplicate_by_version                  *)
(* version_map is an insertion-ordered dict: a sequence with one release   *)
(* per version, a replaced value keeping its place.                        *)
(***************************************************************************)
HasVersion(version_map, version) ==
    \E i \in 1..Len(version_map) : version_map[i].version = version

VersionIndex(version_map, version) ==
    CHOOSE i \in 1..Len(version_map) : version_map[i].version = version

\* mutant: the comparison's sign flipped
ReplacesWhenOlder(release, existing) ==
    _compare_builds(release.build_number, existing.build_number) < 0

\* `comparison > 0`: the release replaces the one kept for its version
Replaces(release, existing) ==
    _compare_builds(release.build_number, existing.build_number) > 0

\* mutant: a replaced record moves to the end of the map
VersionMapStepReinserts(version_map, release) ==
    IF ~HasVersion(version_map, release.version)
    THEN Append(version_map, release)
    ELSE LET i == VersionIndex(version_map, release.version)
         IN  IF Replaces(release, version_map[i])
             THEN Append(SubSeq(version_map, 1, i - 1) \o SubSeq(version_map, i + 1, Len(version_map)), release)
             ELSE version_map

VersionMapStep(version_map, release) ==
    IF ~HasVersion(version_map, release.version)
    THEN Append(version_map, release)
    ELSE LET i == VersionIndex(version_map, release.version)
         IN  IF Replaces(release, version_map[i])
             THEN [version_map EXCEPT ![i] = release]
             ELSE version_map

RECURSIVE DedupLoop(_, _)
DedupLoop(releases, version_map) ==
    IF releases = <<>> THEN version_map
    ELSE DedupLoop(Tail(releases), VersionMapStep(version_map, Head(releases)))

_deduplicate_by_version(releases) == DedupLoop(releases, <<>>)

(***************************************************************************)
(* Time.  The clock counts minutes from 2025-01-01T00:00:00 and stays      *)
(* within January 2025; datetime values are the minute counts.             *)
(***************************************************************************)
HourMinutes == 60
DayMinutes == 1440

\* Python None (never equal to a string, whose elements are single characters)
None == <<"None">>

\* dict.get(key, default)
GetOr(value, default) == IF value = None THEN default ELSE value

\* what json.load returns for a file that holds the JSON array []: a list,
\* on which .get raises AttributeError and ['...'] raises TypeError
JsonArray == [array |-> <<>>]

\* isinstance(data, dict)
IsDict(data) == "array" \notin DOMAIN data

\* the JSON object {}: a dict without keys
EmptyObject == [key \in {} |-> None]

\* dict.get(key, default) on tracked_data
Get(data, key, default) == IF key \in DOMAIN data THEN data[key] ELSE default

TwoDigits(n) == <<DigitChars[(n \div 10) + 1], DigitChars[(n % 10) + 1]>>

\* datetime.isoformat() of a datetime with zero seconds and microseconds
isoformat(t) ==
    <<"2","0","2","5","-","0","1","-">> \o TwoDigits((t \div DayMinutes) + 1) \o <<"T">>
        \o TwoDigits((t % DayMinutes) \div HourMinutes) \o <<":">>
        \o TwoDigits(t % HourMinutes) \o <<":","0","0">>

\* datetime.fromisoformat() on the strings isoformat() writes
fromisoformat(s) ==
    (StrToInt(SubSeq(s, 9, 10)) - 1) * DayMinutes
        + StrToInt(SubSeq(s, 12, 13)) * HourMinutes
        + StrToInt(SubSeq(s, 15, 16))

\* datetime.strftime("%Y%m%d")
strftime_Ymd(t) == <<"2","0","2","5","0","1">> \o TwoDigits((t \div DayMinutes) + 1)

(***************************************************************************)
(* VersionResolver: ReleaseDetector._extract_version                       *)
(***************************************************************************)
\* the class \w
IsWord(c) == c \in DigitSet \/ c \in UpperSet \/ c \in LowerSet \/ c = "_"

\* the class \s
IsSpace(c) == c \in {" ", "\t", "\n", "\r"}

\* \d{2}H\d at position i; with IGNORECASE the H also matches h
VersionTokenAt(s, i, ignorecase) ==
    /\ i >= 1
    /\ i + 3 <= Len(s)
    /\ IsDigit(s[i])
    /\ IsDigit(s[i + 1])
    /\ (s[i + 2] = "H" \/ (ignorecase /\ s[i + 2] = "h"))
    /\ IsDigit(s[i + 3])

MinOf(S) == CHOOSE x \in S : \A y \in S : x <= y

\* how many blanks (\s) stand at position i and after it
RECURSIVE BlankRun(_, _)
BlankRun(s, i) == IF i <= Len(s) /\ IsSpace(s[i]) THEN 1 + BlankRun(s, i + 1) ELSE 0

\* version\s+(\d{2}H\d) matches at i; lower is the title in lower case
DirectMatchAt(title, lower, i) ==
    /\ MatchAt(lower, i, <<"v","e","r","s","i","o","n">>)
    /\ BlankRun(title, i + 7) >= 1
    /\ VersionTokenAt(title, i + 7 + BlankRun(title, i + 7), TRUE)

DirectMatches(title, lower) == {i \in 1..Len(title) : DirectMatchAt(title, lower, i)}

\* \b before position i and after position i + 3
WordBounded(s, i) ==
    /\ (i = 1 \/ ~IsWord(s[i - 1]))
    /\ (i + 3 = Len(s) \/ ~IsWord(s[i + 4]))

StandaloneMatches(title) ==
    {i \in 1..Len(title) : VersionTokenAt(title, i, TRUE) /\ WordBounded(title, i)}

\* mutant: five digits count as the build token wherever they stand
BuildTokenAnywhere(title) ==
    {i \in 1..Len(title) : i + 5 <= Len(title) /\ \A k \in 1..5 : IsDigit(title[i + k])}

\* \((\d{5})
BuildTokenMatches(title) ==
    {i \in 1..Len(title) :
        /\ title[i] = "("
        /\ i + 5 <= Len(title)
        /\ \A k \in 1..5 : IsDigit(title[i + k])}

\* mutant: the narrower ranges are tested before the ranges that hold them
RangeLabelNarrowFirst(build_num) ==
    IF 26220 <= build_num /\ build_num < 27000 THEN <<"I","n","s","i","d","e","r","-","2","6","H","2">>
    ELSE IF 26200 <= build_num /\ build_num < 27000 THEN <<"2","5","H","2">>
    ELSE IF 26100 <= build_num /\ build_num < 26200 THEN <<"2","4","H","2">>
    ELSE IF 28000 <= build_num /\ build_num < 29000 THEN <<"I","n","s","i","d","e","r","-","2","8","x","x","x">>
    ELSE IF 22631 <= build_num /\ build_num < 23000 THEN <<"2","3","H","2">>
    ELSE IF 22621 <= build_num /\ build_num < 23000 THEN <<"2","2","H","2">>
    ELSE None

\* the range table, in its written order; None when no range holds
RangeLabel(build_num) ==
    IF 26200 <= build_num /\ build_num < 27000 THEN <<"2","5","H","2">>
    ELSE IF 26100 <= build_num /\ build_num < 26200 THEN <<"2","4","H","2">>
    ELSE IF 26220 <= build_num /\ build_num < 27000 THEN <<"I","n","s","i","d","e","r","-","2","6","H","2">>
    ELSE IF 28000 <= build_num /\ build_num < 29000 THEN <<"I","n","s","i","d","e","r","-","2","8","x","x","x">>
    ELSE IF 22621 <= build_num /\ build_num < 23000 THEN <<"2","2","H","2">>
    ELSE IF 22631 <= build_num /\ build_num < 23000 THEN <<"2","3","H","2">>
    ELSE None

InsiderOrUnknown(lower) ==
    IF Contains(lower, <<"i","n","s","i","d","e","r">>) \/ Contains(lower, <<"p","r","e","v","i","e","w">>)
    THEN <<"I","n","s","i","d","e","r","-","P","r","e","v","i","e","w">>
    ELSE <<"U","n","k","n","o","w","n">>

\* the label of the build token starting after position i
BuildTokenLabel(title, i) == RangeLabel(StrToInt(SubSeq(title, i + 1, i + 5)))

\* mutant: the insider/preview marker is looked for before the build token
MarkerBeforeToken(title, lower, direct, standalone, token) ==
    IF direct # {}
    THEN LET t == MinOf(direct) + 7 + BlankRun(title, MinOf(direct) + 7)
         IN  UpperStr(SubSeq(title, t, t + 3))
    ELSE IF standalone # {}
    THEN UpperStr(SubSeq(title, MinOf(standalone), MinOf(standalone) + 3))
    ELSE IF InsiderOrUnknown(lower) # <<"U","n","k","n","o","w","n">>
    THEN InsiderOrUnknown(lower)
    ELSE IF token # {} /\ BuildTokenLabel(title, MinOf(token)) # None
    THEN BuildTokenLabel(title, MinOf(token))
    ELSE <<"U","n","k","n","o","w","n">>

ExtractVersion(title, lower, direct, standalone, token) ==
    IF direct # {}
    THEN LET t == MinOf(direct) + 7 + BlankRun(title, MinOf(direct) + 7)
         IN  UpperStr(SubSeq(title, t, t + 3))
    ELSE IF standalone # {}
    THEN UpperStr(SubSeq(title, MinOf(standalone), MinOf(standalone) + 3))
    ELSE IF token # {} /\ BuildTokenLabel(title, MinOf(token)) # None
    THEN BuildTokenLabel(title, MinOf(token))
    ELSE InsiderOrUnknown(lower)

_extract_version(title) ==
    ExtractVersion(title, LowerStr(title), DirectMatches(title, LowerStr(title)),
                   StandaloneMatches(title), BuildTokenMatches(title))

(***************************************************************************)
(* Direct-extraction adapter: MicrosoftPlaywrightDownloader.get_all_versions*)
(* and ReleaseDetector._check_microsoft_direct                             *)
(***************************************************************************)
\* (\d{2}H\d), case-sensitive, anywhere in the URL
UrlVersionMatches(url) == {i \in 1..Len(url) : VersionTokenAt(url, i, FALSE)}

\* how many digits follow position i (the greedy \d+)
RECURSIVE DigitRun(_, _)
DigitRun(s, i) == IF i <= Len(s) /\ IsDigit(s[i]) THEN 1 + DigitRun(s, i + 1) ELSE 0

\* (\d{5}\.\d+)
UrlBuildMatches(url) ==
    {i \in 1..Len(url) :
        /\ i + 6 <= Len(url)
        /\ \A k \in 0..4 : IsDigit(url[i + k])
        /\ url[i + 5] = "."
        /\ IsDigit(url[i + 6])}

UrlVersion(url) ==
    IF UrlVersionMatches(url) # {}
    THEN SubSeq(url, MinOf(UrlVersionMatches(url)), MinOf(UrlVersionMatches(url)) + 3)
    ELSE <<"L","a","t","e","s","t">>

UrlBuildNumber(url) ==
    IF UrlBuildMatches(url) # {}
    THEN LET i == MinOf(UrlBuildMatches(url))
         IN  SubSeq(url, i, i + 5 + DigitRun(url, i + 6))
    ELSE <<"L","a","t","e","s","t">>

\* f'msft-playwright-{version.lower()}-{datetime.now().strftime("%Y%m%d")}'
DirectBuildId(version, t) ==
    <<"m","s","f","t","-","p","l","a","y","w","r","i","g","h","t","-">> \o LowerStr(version) \o <<"-">> \o strftime_Ymd(t)

\* `if direct_url:` is false for None and for the empty string
Truthy(str) == str # None /\ str # <<>>

get_all_versions(direct_url, t) ==
    IF ~Truthy(direct_url) THEN <<>>
    ELSE <<[version |-> UrlVersion(direct_url),
            title |-> <<"W","i","n","d","o","w","s"," ","1","1"," ">> \o UrlVersion(direct_url),
            iso_url |-> direct_url,
            detected_date |-> isoformat(t),
            build_number |-> UrlBuildNumber(direct_url),
            build_id |-> DirectBuildId(UrlVersion(direct_url), t),
            architecture |-> <<"a","m","d","6","4">>,
            channel |-> <<"r","e","t","a","i","l">>,
            language |-> <<"e","n","-","u","s">>]>>

\* WindowsRelease(...) of a version dict
DirectRelease(v) ==
    [build_id |-> v.build_id, build_number |-> v.build_number, version |-> v.version,
     title |-> v.title, iso_url |-> v.iso_url, detected_date |-> v.detected_date,
     architecture |-> v.architecture, channel |-> v.channel, language |-> v.language]

\* mutant: a version whose build_id is tracked is collected again
NeverTracked(build_id, builds) == FALSE

\* `if v['build_id'] in self.tracked_data.get('builds', {}): continue`
AlreadyTracked(build_id, builds) == build_id \in DOMAIN builds

RECURSIVE DirectReleases(_, _)
DirectReleases(versions, builds) ==
    IF versions = <<>> THEN <<>>
    ELSE IF AlreadyTracked(Head(versions).build_id, builds)
    THEN DirectReleases(Tail(versions), builds)
    ELSE <<DirectRelease(Head(versions))>> \o DirectReleases(Tail(versions), builds)

\* on a tracked_data without .get the lookup raises inside the try and the
\* adapter returns []
_check_microsoft_direct(direct_url, data, t) ==
    IF ~IsDict(data) THEN <<>>
    ELSE DirectReleases(get_all_versions(direct_url, t), Get(data, "builds", <<>>))

(***************************************************************************)
(* API-listing adapter: ReleaseDetector._check_uupdump                     *)
(* A response is [kind, builds]: kind names what the request produced,     *)
(* builds is the insertion-ordered `builds` mapping as a sequence of       *)
(* [key, build] pairs; a build is [isdict, uuid, title, arch, build], a    *)
(* field being None when its key is absent.                                *)
(***************************************************************************)
MaxBuildsProcessed == 30

\* key=lambda x: int(x) if x.isdigit() else 0
SortKey(x) == IF IntOk(x) THEN StrToInt(x) ELSE 0

\* sorted(..., reverse=True): descending, equal keys in their original order
RECURSIVE SortedDesc(_)
SortedDesc(items) ==
    IF items = <<>> THEN <<>>
    ELSE LET i == MinOf({j \in 1..Len(items) :
                            \A k \in 1..Len(items) : SortKey(items[j].key) >= SortKey(items[k].key)})
         IN  <<items[i]>> \o SortedDesc(SubSeq(items, 1, i - 1) \o SubSeq(items, i + 1, Len(items)))

\* sorted_keys[:30]
FirstN(items, n) == SubSeq(items, 1, IF Len(items) < n THEN Len(items) ELSE n)

\* `'Windows 11' not in title or arch != 'amd64'` is false
IsWindows11x64(build) ==
    /\ Contains(GetOr(build.title, <<>>), <<"W","i","n","d","o","w","s"," ","1","1">>)
    /\ GetOr(build.arch, <<>>) = <<"a","m","d","6","4">>

UupRelease(build, t) ==
    [build_id |-> build.uuid,
     build_number |-> GetOr(build.build, <<"U","n","k","n","o","w","n">>),
     version |-> _extract_version(GetOr(build.title, <<>>)),
     title |-> GetOr(build.title, <<>>),
     iso_url |-> <<"h","t","t","p","s",":","/","/","u","u","p","d","u","m","p",".","n","e","t","/","d","o","w","n","l","o","a","d",".","p","h","p","?","i","d","=">> \o build.uuid
                    \o <<"&","p","a","c","k","=","e","n","-","u","s","&","e","d","i","t","i","o","n","=","p","r","o","f","e","s","s","i","o","n","a","l">>,
     detected_date |-> isoformat(t),
     architecture |-> GetOr(build.arch, <<>>),
     channel |-> IF Contains(GetOr(build.title, <<>>), <<"I","n","s","i","d","e","r">>) THEN <<"i","n","s","i","d","e","r">> ELSE <<"r","e","t","a","i","l">>,
     language |-> <<"e","n","-","u","s">>]

RECURSIVE UupReleases(_, _)
UupReleases(items, t) ==
    IF items = <<>> THEN <<>>
    ELSE IF ~Head(items).build.isdict \/ ~IsWindows11x64(Head(items).build)
    THEN UupReleases(Tail(items), t)
    ELSE <<UupRelease(Head(items).build, t)>> \o UupReleases(Tail(items), t)

\* the response kinds from which the adapter returns candidates
UupSucceeds(response) == response.kind = "builds_dict"

_check_uupdump(response, t) ==
    IF UupSucceeds(response)
    THEN UupReleases(FirstN(SortedDesc(response.builds), MaxBuildsProcessed), t)
    ELSE <<>>

(***************************************************************************)
(* Reconciliation: ReleaseDetector.detect_new_releases and the tracking    *)
(* store                                                                   *)
(***************************************************************************)
DefaultTracked == [builds |-> <<>>, last_check |-> None, check_count |-> 0]

\* The tracking file: missing, not JSON, or JSON; whatever json.load parses
\* is returned as it is
_load_tracked(f) == IF f.kind \in {"object", "array"} THEN f.data ELSE DefaultTracked

\* `self.tracked_data.get('last_check')` is evaluated unless force is set
GateRaises(force, data) == ~force /\ ~IsDict(data)

\* `self.tracked_data['builds'][release.build_id] = ...` raises TypeError on a
\* list and KeyError when the key is absent; `self.tracked_data['last_check']
\* = ...` in _save_tracked raises TypeError on a list
SaveRaises(data, unique) ==
    \/ ~IsDict(data)
    \/ ("builds" \notin DOMAIN data /\ unique # <<>>)

\* mutant: a check exactly one hour old still skips
RateGateSkipsAtOneHour(force, last_check, t) ==
    /\ ~force
    /\ Truthy(last_check)
    /\ t - fromisoformat(last_check) <= HourMinutes

\* the rate gate of detect_new_releases
RateGateSkips(force, last_check, t) ==
    /\ ~force
    /\ Truthy(last_check)
    /\ t - fromisoformat(last_check) < HourMinutes

\* {r.build_id: r for r in all_releases}, as the sequence of its values: one
\* release per build_id, in the order the ids first occur, each the last
\* release collected with that id
\* mutant: the first release collected with an id is kept
FirstWithId(releases, build_id) ==
    releases[CHOOSE i \in 1..Len(releases) :
                /\ releases[i].build_id = build_id
                /\ \A j \in 1..(i - 1) : releases[j].build_id # build_id]

LastWithId(releases, build_id) ==
    releases[CHOOSE i \in 1..Len(releases) :
                /\ releases[i].build_id = build_id
                /\ \A j \in (i + 1)..Len(releases) : releases[j].build_id # build_id]

RECURSIVE UniqueFrom(_, _, _)
UniqueFrom(releases, i, seen) ==
    IF i > Len(releases) THEN <<>>
    ELSE IF releases[i].build_id \in seen THEN UniqueFrom(releases, i + 1, seen)
    ELSE <<LastWithId(releases, releases[i].build_id)>>
            \o UniqueFrom(releases, i + 1, seen \cup {releases[i].build_id})

unique_releases(releases) == UniqueFrom(releases, 1, {})

\* mutant: only the active set is tracked
TrackedActiveOnly(unique, version_deduped) == version_deduped

\* the records written into tracked_data['builds']: every identity-deduplicated one
TrackedRecords(unique, version_deduped) == unique

\* self.tracked_data['builds'][release.build_id] = asdict(release)
UpdateBuilds(builds, records) ==
    [id \in DOMAIN builds \cup {records[i].build_id : i \in 1..Len(records)} |->
        IF \E i \in 1..Len(records) : records[i].build_id = id
        THEN LastWithId(records, id)
        ELSE builds[id]]

\* mutant: state is saved only when something was found
SavesWhenFound(unique) == unique # <<>>

\* mutant: a failed direct source ends the loop over the sources
AfterDirectBreaks(direct) == IF direct = "aborted" THEN "reconcile" ELSE "uupdump"

\* mutant: the counter is left alone
save_without_count(data, t) == [data EXCEPT !.last_check = isoformat(t)]

\* `self._save_tracked()` is reached by every cycle that passed the gate,
\* whatever the cycle found
SavesTracked(unique) == TRUE

\* mutant: after a session that raised the loop over the sources is left
\* waiting
AfterDirectStalls(direct) == IF direct = "aborted" THEN "stalled" ELSE "uupdump"

\* `continue` in the loop over the sources: the next source is checked
\* whatever became of the direct one
AfterDirect(direct) == "uupdump"

_save_tracked(data, t) ==
    [key \in DOMAIN data \cup {"last_check", "check_count"} |->
        IF key = "last_check" THEN isoformat(t)
        ELSE IF key = "check_count" THEN Get(data, "check_count", 0) + 1
        ELSE data[key]]

(***************************************************************************)
(* MatrixBuilder: ReleaseDetector.generate_matrix                          *)
(***************************************************************************)
BuildTypes == <<<<"s","t","a","n","d","a","r","d">>, <<"c","o","r","e">>, <<"n","a","n","o">>>>

\* Home, Pro
Editions == <<1, 6>>

\* release.title.replace(' ', '_').replace('(', '').replace(')', '')
RECURSIVE MatrixTitle(_)
MatrixTitle(title) ==
    IF title = <<>> THEN <<>>
    ELSE IF Head(title) = " " THEN <<"_">> \o MatrixTitle(Tail(title))
    ELSE IF Head(title) \in {"(", ")"} THEN MatrixTitle(Tail(title))
    ELSE <<Head(title)>> \o MatrixTitle(Tail(title))

MatrixEntry(release, build_type, edition) ==
    [version |-> release.version,
     build |-> release.build_number,
     iso_url |-> release.iso_url,
     build_type |-> build_type,
     edition |-> edition,
     edition_name |-> IF edition = 1 THEN <<"H","o","m","e">> ELSE <<"P","r","o">>,
     title |-> MatrixTitle(release.title)]

\* mutant: only the Home edition is built
HomeEntriesOnly(release, build_type) == <<MatrixEntry(release, build_type, 1)>>

\* `for edition in [1, 6]`
EditionEntries(release, build_type) ==
    [e \in 1..Len(Editions) |-> MatrixEntry(release, build_type, Editions[e])]

\* `for build_type in ['standard', 'core', 'nano']`, from the i-th type on
RECURSIVE TypeEntries(_, _)
TypeEntries(release, i) ==
    IF i > Len(BuildTypes) THEN <<>>
    ELSE EditionEntries(release, BuildTypes[i]) \o TypeEntries(release, i + 1)

\* `for release in releases`
RECURSIVE MatrixInclude(_)
MatrixInclude(releases) ==
    IF releases = <<>> THEN <<>>
    ELSE TypeEntries(Head(releases), 1) \o MatrixInclude(Tail(releases))

generate_matrix(releases) == [include |-> MatrixInclude(releases)]

(***************************************************************************)
(* UserAgentRotator: the class-level pool of MicrosoftPlaywrightDownloader *)
(* An agent is named by its place in the USER_AGENTS catalog.              *)
(***************************************************************************)
NumAgents == 2

USER_AGENTS == [i \in 1..NumAgents |-> i]

\* the outcomes of random.shuffle on the pool
Shuffles(pool) ==
    {[i \in 1..Len(pool) |-> pool[f[i]]] :
        f \in {g \in [1..Len(pool) -> 1..Len(pool)] :
                  \A a, b \in 1..Len(pool) : g[a] = g[b] => a = b}}

\* mutant: the pool is reshuffled one call early
PoolExhaustedEarly(index, pool) == index >= Len(pool) - 1

\* `if MicrosoftPlaywrightDownloader._agent_index >= len(_agent_pool)`
PoolExhausted(index, pool) == index >= Len(pool)

(***************************************************************************)
(* BrowserExtractionSession: the statements of get_windows11_link          *)
(***************************************************************************)
StepNames ==
    <<"start_playwright", "user_agent", "launch", "goto", "wait_edition",
      "select_edition", "click_edition", "wait_languages", "count_languages",
      "select_language", "click_sku", "wait_download", "get_href", "close">>

StepIndex(name) == CHOOSE i \in 1..Len(StepNames) : StepNames[i] = name

\* what a step can raise: PlaywrightTimeout or another exception
FailKinds(name) ==
    IF name = "user_agent" THEN {}
    ELSE IF name \in {"start_playwright", "close"} THEN {"error"}
    ELSE {"timeout", "error"}

NoSession ==
    [state |-> "none", next |-> 0, steps |-> <<>>, browser |-> "none",
     playwright |-> "none", url |-> None, result |-> None, failed |-> "", agents |-> 0]

NewSession == [NoSession EXCEPT !.state = "running", !.next = 1]

\* mutant: the driver is started without the with statement
WithoutExit(sess) == sess

\* leaving `with sync_playwright() as p:`: the driver is stopped and with it
\* every browser it launched
WithExit(sess) ==
    [sess EXCEPT !.playwright = IF @ = "running" THEN "stopped" ELSE @,
                 !.browser = IF @ = "open" THEN "closed" ELSE @]

\* mutant: a failed step is tried again
AbortRetries(sess, name) == [sess EXCEPT !.steps = Append(@, name)]

\* the except clauses: both return None
Abort(sess, name) ==
    [WithExit(sess) EXCEPT !.state = "returned", !.next = 0, !.result = None,
                           !.failed = name, !.steps = Append(@, name)]

\* mutant: the language dropdown is not awaited after the edition was submitted
AdvanceWithoutWait(sess, name) ==
    [sess EXCEPT !.next = IF name = "click_edition" THEN @ + 2 ELSE @ + 1,
                 !.steps = Append(@, name),
                 !.playwright = IF name = "start_playwright" THEN "running" ELSE @,
                 !.browser = IF name = "launch" THEN "open" ELSE @]

\* the state after a step that completed
Advance(sess, name) ==
    [sess EXCEPT !.next = @ + 1, !.steps = Append(@, name),
                 !.playwright = IF name = "start_playwright" THEN "running" ELSE @,
                 !.browser = IF name = "launch" THEN "open" ELSE @]

\* mutant: a URL without `.iso` is rejected
ValidateIso(download_url) ==
    IF Truthy(download_url) /\ Contains(LowerStr(download_url), <<".","i","s","o">>) THEN download_url ELSE None

\* `if not download_url: ... return None` / `return download_url`
Validate(download_url) == IF Truthy(download_url) THEN download_url ELSE None

(***************************************************************************)
(* Inputs                                                                  *)
(***************************************************************************)
UrlA == <<"a","/","W","i","n","1","1","_","2","4","H","2",".","i","s","o">>
UrlB == <<"b","/","W","i","n","1","1","_","2","4","H","2",".","i","s","o">>
UrlC == <<"c","/","2","5","H","2","_","2","6","2","0","0",".","1">>

\* what the href attribute of the 64-bit download button can hold
Hrefs == {UrlA, UrlB, UrlC, <<>>, None}

Build1 ==
    [isdict |-> TRUE, uuid |-> <<"u","1">>, title |-> <<"W","i","n","d","o","w","s"," ","1","1"," ","2","4","H","2">>,
     arch |-> <<"a","m","d","6","4">>, build |-> <<"2","6","1","0","0",".","1","0">>]
Build2 ==
    [isdict |-> TRUE, uuid |-> <<"u","2">>, title |-> <<"W","i","n","d","o","w","s"," ","1","1",","," ","v","e","r","s","i","o","n"," ","2","4","h","2">>,
     arch |-> <<"a","m","d","6","4">>, build |-> <<"2","6","1","0","0",".","2","0">>]
Build3 ==
    [isdict |-> TRUE, uuid |-> <<"u","3">>, title |-> <<"W","i","n","d","o","w","s"," ","1","1"," ","(","2","6","2","0","0",".","1",")">>,
     arch |-> <<"a","m","d","6","4">>, build |-> <<"2","6","2","0","0",".","1">>]
Build4 ==
    [isdict |-> TRUE, uuid |-> <<"u","1">>, title |-> <<"W","i","n","d","o","w","s"," ","1","1"," ","2","4","H","2"," ","I","n","s","i","d","e","r">>,
     arch |-> <<"a","m","d","6","4">>, build |-> None]
Build5 ==
    [isdict |-> TRUE, uuid |-> <<"u","5">>, title |-> <<"W","i","n","d","o","w","s"," ","1","1"," ","2","4","H","2">>,
     arch |-> <<"a","r","m","6","4">>, build |-> <<"2","6","1","0","0",".","3","0">>]
Build6 ==
    [isdict |-> FALSE, uuid |-> None, title |-> None, arch |-> None, build |-> None]

Item(key, build) == [key |-> key, build |-> build]

BuildsDicts ==
    { <<>>,
      <<Item(<<"1">>, Build1)>>,
      <<Item(<<"1">>, Build1), Item(<<"2">>, Build2), Item(<<"3">>, Build3)>>,
      <<Item(<<"2">>, Build4), Item(<<"1">>, Build1)>>,
      <<Item(<<"x">>, Build2), Item(<<"7">>, Build6), Item(<<"0">>, Build5)>> }

\* the failures of the request and the shapes the adapter rejects
UupFailureKinds ==
    {"timeout", "transport_error", "http_error", "invalid_json", "not_a_dict",
     "no_response_key", "response_not_a_dict", "builds_not_a_dict", "unexpected_error"}

ApiResponses ==
    {[kind |-> "builds_dict", builds |-> b] : b \in BuildsDicts}
        \cup {[kind |-> k, builds |-> <<>>] : k \in UupFailureKinds}

\* a record an earlier run of the program tracked
OldRelease == UupRelease(Build1, 0)

TrackedFiles ==
    { [kind |-> "missing", data |-> DefaultTracked],
      [kind |-> "invalid_json", data |-> DefaultTracked],
      [kind |-> "object",
       data |-> [builds |-> [id \in {OldRelease.build_id} |-> OldRelease],
                 last_check |-> isoformat(0), check_count |-> 4]],
      [kind |-> "object",
       data |-> [builds |-> [id \in {OldRelease.build_id} |-> OldRelease],
                 last_check |-> isoformat(HourMinutes \div 2), check_count |-> 5]] }

\* how far the clock moves between two calls
ClockSteps == {HourMinutes \div 2, DayMinutes}

MaxCalls == 2
MaxTicks == 1
MaxAgentCalls == 9
MaxLen == 3

(***************************************************************************)
(* State                                                                   *)
(***************************************************************************)
VARIABLES
    file,           \* the tracking file
    tracked_data,   \* ReleaseDetector.tracked_data
    now,            \* the clock, in minutes
    ticks,          \* how often the clock moved
    calls,          \* calls of detect_new_releases so far
    pc,             \* where the process is
    all_releases,   \* the local all_releases of the running cycle
    _agent_pool,    \* MicrosoftPlaywrightDownloader._agent_pool
    _agent_index,   \* MicrosoftPlaywrightDownloader._agent_index
    session,        \* the running get_windows11_link call
    cycle,          \* what the running (or last) call saw and did
    returned,       \* what the last call of detect_new_releases returned
    completed,      \* calls that passed the rate gate and returned
    agent_log,      \* every agent _get_next_user_agent returned, in order
    shuffles,       \* how often the pool was shuffled
    loaded,         \* tracked_data as _load_tracked returned it
    ddDone,         \* _deduplicate_by_version was applied (SpecDedup)
    ddIn,           \* input of _deduplicate_by_version (SpecDedup)
    ddOut,          \* its output
    call,           \* the function applied and its arguments (the specifications of single functions)
    result          \* what it returned

vars ==
    <<file, tracked_data, now, ticks, calls, pc, all_releases, _agent_pool,
      _agent_index, session, cycle, returned, completed, agent_log, shuffles,
      loaded, ddDone, ddIn, ddOut, call, result>>

detector_vars == <<file, tracked_data, now, ticks, calls, all_releases, cycle, returned, completed, loaded>>
rotator_vars == <<_agent_pool, _agent_index, agent_log, shuffles>>
dedup_vars == <<ddDone, ddIn, ddOut>>
pure_vars == <<call, result>>

\* no function of the single-function specifications is applied
NoCall == [fn |-> "none", args |-> <<>>, done |-> FALSE]

NoCycle ==
    [outcome |-> "none", force |-> FALSE, at |-> 0, agents |-> 0, start |-> DefaultTracked,
     start_file |-> [kind |-> "missing", data |-> DefaultTracked],
     invoked |-> <<>>, direct |-> "pending", uupdump |-> "pending",
     direct_out |-> <<>>, uup_out |-> <<>>, unique |-> <<>>, href |-> None]

\* everything but the tracking file and the input of the version dedup
InitRest ==
    /\ tracked_data = DefaultTracked
    /\ now = HourMinutes
    /\ ticks = 0
    /\ calls = 0
    /\ pc = "new"
    /\ all_releases = <<>>
    /\ _agent_pool = <<>>
    /\ _agent_index = 0
    /\ session = NoSession
    /\ cycle = NoCycle
    /\ returned = <<>>
    /\ completed = 0
    /\ agent_log = <<>>
    /\ shuffles = 0
    /\ loaded = DefaultTracked
    /\ ddDone = FALSE
    /\ ddOut = <<>>
    /\ result = <<>>

Init ==
    /\ file \in TrackedFiles
    /\ ddIn = <<>>
    /\ call = NoCall
    /\ InitRest

(***************************************************************************)
(* The rotator's two operations                                            *)
(***************************************************************************)
\* MicrosoftPlaywrightDownloader.__init__
downloader_init ==
    /\ IF _agent_pool = <<>>
       THEN /\ _agent_pool' \in Shuffles(USER_AGENTS)
            /\ shuffles' = shuffles + 1
       ELSE UNCHANGED <<_agent_pool, shuffles>>
    /\ UNCHANGED <<_agent_index, agent_log>>

\* MicrosoftPlaywrightDownloader._get_next_user_agent
_get_next_user_agent ==
    /\ agent_log' = Append(agent_log, _agent_pool[_agent_index + 1])
    /\ IF PoolExhausted(_agent_index + 1, _agent_pool)
       THEN /\ _agent_pool' \in Shuffles(_agent_pool)
            /\ _agent_index' = 0
            /\ shuffles' = shuffles + 1
       ELSE /\ _agent_index' = _agent_index + 1
            /\ UNCHANGED <<_agent_pool, shuffles>>

(***************************************************************************)
(* The detector process                                                    *)
(***************************************************************************)
\* ReleaseDetector.__init__
Construct ==
    /\ pc = "new"
    /\ tracked_data' = _load_tracked(file)
    /\ loaded' = _load_tracked(file)
    /\ pc' = "idle"
    /\ UNCHANGED <<file, now, ticks, calls, all_releases, session, cycle, returned, completed>>
    /\ UNCHANGED rotator_vars
    /\ UNCHANGED dedup_vars
    /\ UNCHANGED pure_vars

\* time passes between two calls
Tick ==
    /\ pc = "idle"
    /\ ticks < MaxTicks
    /\ calls < MaxCalls
    /\ \E d \in ClockSteps : now' = now + d
    /\ ticks' = ticks + 1
    /\ UNCHANGED <<file, tracked_data, calls, pc, all_releases, session, cycle, returned, completed, loaded>>
    /\ UNCHANGED rotator_vars
    /\ UNCHANGED dedup_vars
    /\ UNCHANGED pure_vars

StartOfCall(force) ==
    [NoCycle EXCEPT !.force = force, !.at = now, !.agents = Len(agent_log),
                    !.start = tracked_data, !.start_file = file]

\* detect_new_releases, the rate gate closed: `return []`
RateGateSkip ==
    /\ pc = "idle"
    /\ calls < MaxCalls
    /\ \E force \in BOOLEAN :
        /\ ~GateRaises(force, tracked_data)
        /\ RateGateSkips(force, Get(tracked_data, "last_check", None), now)
        /\ cycle' = [StartOfCall(force) EXCEPT !.outcome = "skipped"]
    /\ calls' = calls + 1
    /\ returned' = <<>>
    /\ UNCHANGED <<file, tracked_data, now, ticks, pc, all_releases, session, completed, loaded>>
    /\ UNCHANGED rotator_vars
    /\ UNCHANGED dedup_vars
    /\ UNCHANGED pure_vars

\* detect_new_releases, the rate gate open: `all_releases = []`
RateGatePass ==
    /\ pc = "idle"
    /\ calls < MaxCalls
    /\ \E force \in BOOLEAN :
        /\ ~GateRaises(force, tracked_data)
        /\ ~RateGateSkips(force, Get(tracked_data, "last_check", None), now)
        /\ cycle' = [StartOfCall(force) EXCEPT !.outcome = "running"]
    /\ calls' = calls + 1
    /\ all_releases' = <<>>
    /\ pc' = "microsoft_direct"
    /\ UNCHANGED <<file, tracked_data, now, ticks, session, returned, completed, loaded>>
    /\ UNCHANGED rotator_vars
    /\ UNCHANGED dedup_vars
    /\ UNCHANGED pure_vars

\* the first source: _check_microsoft_direct constructs a downloader and
\* calls get_all_versions, which calls get_windows11_link
StartDirect ==
    /\ pc = "microsoft_direct"
    /\ downloader_init
    /\ session' = NewSession
    /\ cycle' = [cycle EXCEPT !.invoked = Append(@, "microsoft_direct")]
    /\ pc' = "session"
    /\ UNCHANGED <<file, tracked_data, now, ticks, calls, all_releases, returned, completed, loaded>>
    /\ UNCHANGED dedup_vars
    /\ UNCHANGED pure_vars

Running(name) ==
    /\ pc = "session"
    /\ session.state = "running"
    /\ StepNames[session.next] = name

\* `user_agent = self._get_next_user_agent()`
TakeUserAgent ==
    /\ Running("user_agent")
    /\ _get_next_user_agent
    /\ session' = [Advance(session, "user_agent") EXCEPT !.agents = @ + 1]
    /\ UNCHANGED <<pc, ddDone, ddIn, ddOut>>
    /\ UNCHANGED pure_vars
    /\ UNCHANGED detector_vars

\* a step other than the first and the last two completes
StepCompletes ==
    /\ pc = "session"
    /\ session.state = "running"
    /\ StepNames[session.next] \notin {"user_agent", "get_href", "close"}
    /\ session' = Advance(session, StepNames[session.next])
    /\ UNCHANGED <<pc, ddDone, ddIn, ddOut>>
    /\ UNCHANGED pure_vars
    /\ UNCHANGED detector_vars
    /\ UNCHANGED rotator_vars

\* `download_url = download_button.get_attribute('href')`
ReadHref ==
    /\ Running("get_href")
    /\ \E href \in Hrefs : session' = [Advance(session, "get_href") EXCEPT !.url = href]
    /\ UNCHANGED <<pc, ddDone, ddIn, ddOut>>
    /\ UNCHANGED pure_vars
    /\ UNCHANGED detector_vars
    /\ UNCHANGED rotator_vars

\* `browser.close()` and the return that follows it
CloseAndReturn ==
    /\ Running("close")
    /\ session' = [WithExit([Advance(session, "close") EXCEPT !.browser = "closed"])
                      EXCEPT !.state = "returned", !.next = 0,
                             !.result = Validate(session.url)]
    /\ UNCHANGED <<pc, ddDone, ddIn, ddOut>>
    /\ UNCHANGED pure_vars
    /\ UNCHANGED detector_vars
    /\ UNCHANGED rotator_vars

\* a step raises: PlaywrightTimeout or another exception
StepFails ==
    /\ pc = "session"
    /\ session.state = "running"
    /\ FailKinds(StepNames[session.next]) # {}
    /\ session' = Abort(session, StepNames[session.next])
    /\ UNCHANGED <<pc, ddDone, ddIn, ddOut>>
    /\ UNCHANGED pure_vars
    /\ UNCHANGED detector_vars
    /\ UNCHANGED rotator_vars

\* get_windows11_link returned: the rest of get_all_versions and of
\* _check_microsoft_direct, and `all_releases.extend(source_releases)`
FinishDirect ==
    /\ pc = "session"
    /\ session.state = "returned"
    /\ LET out == _check_microsoft_direct(session.result, tracked_data, now)
       IN  /\ all_releases' = all_releases \o out
           /\ cycle' = [cycle EXCEPT !.direct_out = out,
                                     !.href = session.result,
                                     !.direct = IF session.failed # "" THEN "aborted"
                                                ELSE IF session.result = None THEN "no_href"
                                                ELSE "ok"]
    /\ session' = NoSession
    /\ pc' = AfterDirect(cycle'.direct)
    /\ UNCHANGED <<file, tracked_data, now, ticks, calls, returned, completed, loaded>>
    /\ UNCHANGED rotator_vars
    /\ UNCHANGED dedup_vars
    /\ UNCHANGED pure_vars

\* the second source: _check_uupdump and `all_releases.extend(source_releases)`
CheckUupdump ==
    /\ pc = "uupdump"
    /\ \E response \in ApiResponses :
        LET out == _check_uupdump(response, now)
        IN  /\ all_releases' = all_releases \o out
            /\ cycle' = [cycle EXCEPT !.invoked = Append(@, "uupdump"),
                                      !.uup_out = out,
                                      !.uupdump = IF UupSucceeds(response) THEN "ok" ELSE "failed"]
    /\ pc' = "reconcile"
    /\ UNCHANGED <<file, tracked_data, now, ticks, calls, session, returned, completed, loaded>>
    /\ UNCHANGED rotator_vars
    /\ UNCHANGED dedup_vars
    /\ UNCHANGED pure_vars

\* identity dedup, version dedup, the update of the tracking store,
\* _save_tracked and `return version_deduped`
Reconcile ==
    /\ pc = "reconcile"
    /\ ~SaveRaises(tracked_data, unique_releases(all_releases))
    /\ LET unique == unique_releases(all_releases)
           version_deduped == _deduplicate_by_version(unique)
           records == TrackedRecords(unique, version_deduped)
           saved == _save_tracked(
                        IF records = <<>> THEN tracked_data
                        ELSE [tracked_data EXCEPT !.builds = UpdateBuilds(@, records)],
                        now)
       IN  /\ tracked_data' = IF SavesTracked(unique) THEN saved ELSE tracked_data
           /\ file' = IF SavesTracked(unique) THEN [kind |-> "object", data |-> saved] ELSE file
           /\ returned' = version_deduped
           /\ cycle' = [cycle EXCEPT !.outcome = "completed", !.unique = unique]
    /\ completed' = completed + 1
    /\ pc' = "idle"
    /\ UNCHANGED <<now, ticks, calls, all_releases, session, loaded>>
    /\ UNCHANGED rotator_vars
    /\ UNCHANGED dedup_vars
    /\ UNCHANGED pure_vars

Next ==
    \/ Construct
    \/ Tick
    \/ RateGateSkip
    \/ RateGatePass
    \/ StartDirect
    \/ TakeUserAgent
    \/ StepCompletes
    \/ ReadHref
    \/ CloseAndReturn
    \/ StepFails
    \/ FinishDirect
    \/ CheckUupdump
    \/ Reconcile

Spec == Init /\ [][Next]_vars

(***************************************************************************)
(* The detector process with its scheduling: detect_new_releases runs on   *)
(* one thread and every statement of a started cycle is followed by the    *)
(* next.  Every page wait, navigation and HTTP request is bounded by its   *)
(* timeout and every pacing delay by time.sleep, so the step a running     *)
(* cycle is at completes or raises; the statements after the loop over the *)
(* sources hold no wait, so control leaves them.  Whether a cycle is       *)
(* started or the clock advances is left to the environment.               *)
(***************************************************************************)
\* the statements of a cycle up to the end of the loop over the sources
SourceStep ==
    \/ StartDirect
    \/ TakeUserAgent
    \/ StepCompletes
    \/ ReadHref
    \/ CloseAndReturn
    \/ StepFails
    \/ FinishDirect
    \/ CheckUupdump

\* control leaves the statements after the loop: detect_new_releases returns
ReconcileReturns == pc = "reconcile" /\ pc' = "idle"

\* the calls of detect_new_releases followed to their end
LiveCalls == 1

NextLive ==
    \/ Construct
    \/ (calls < LiveCalls /\ Tick)
    \/ (calls < LiveCalls /\ RateGateSkip)
    \/ (calls < LiveCalls /\ RateGatePass)
    \/ SourceStep
    \/ Reconcile

SpecLive == Init /\ [][NextLive]_vars /\ WF_vars(SourceStep) /\ WF_pc(ReconcileReturns)

(***************************************************************************)
(* The detector process on a tracking file that holds no tracking object:  *)
(* an exception of detect_new_releases is caught by nobody and ends the    *)
(* process                                                                 *)
(***************************************************************************)
UntrackedFiles ==
    { [kind |-> "missing", data |-> DefaultTracked],
      [kind |-> "invalid_json", data |-> DefaultTracked],
      [kind |-> "array", data |-> JsonArray],
      [kind |-> "object", data |-> EmptyObject] }

\* detect_new_releases(force=False): AttributeError at the rate gate
GateRaisesError ==
    /\ pc = "idle"
    /\ calls < MaxCalls
    /\ GateRaises(FALSE, tracked_data)
    /\ cycle' = [StartOfCall(FALSE) EXCEPT !.outcome = "raised"]
    /\ calls' = calls + 1
    /\ pc' = "raised"
    /\ UNCHANGED <<file, tracked_data, now, ticks, all_releases, session, returned, completed, loaded>>
    /\ UNCHANGED rotator_vars
    /\ UNCHANGED dedup_vars
    /\ UNCHANGED pure_vars

\* TypeError or KeyError at the update of the tracking store or in _save_tracked
ReconcileRaisesError ==
    /\ pc = "reconcile"
    /\ SaveRaises(tracked_data, unique_releases(all_releases))
    /\ cycle' = [cycle EXCEPT !.outcome = "raised", !.unique = unique_releases(all_releases)]
    /\ pc' = "raised"
    /\ UNCHANGED <<file, tracked_data, now, ticks, calls, all_releases, session, returned, completed, loaded>>
    /\ UNCHANGED rotator_vars
    /\ UNCHANGED dedup_vars
    /\ UNCHANGED pure_vars

InitLoad ==
    /\ file \in UntrackedFiles
    /\ ddIn = <<>>
    /\ call = NoCall
    /\ InitRest

NextLoad ==
    \/ Next
    \/ GateRaisesError
    \/ ReconcileRaisesError

SpecLoad == InitLoad /\ [][NextLoad]_vars

(***************************************************************************)
(* The rotator alone: any interleaving of constructions and calls          *)
(***************************************************************************)
\* another MicrosoftPlaywrightDownloader is constructed
NewDownloader ==
    /\ downloader_init
    /\ UNCHANGED <<pc, session>>
    /\ UNCHANGED detector_vars
    /\ UNCHANGED dedup_vars
    /\ UNCHANGED pure_vars

\* some instance's _get_next_user_agent is called
NextUserAgent ==
    /\ _agent_pool # <<>>
    /\ Len(agent_log) < MaxAgentCalls
    /\ _get_next_user_agent
    /\ UNCHANGED <<pc, session>>
    /\ UNCHANGED detector_vars
    /\ UNCHANGED dedup_vars
    /\ UNCHANGED pure_vars

NextRot ==
    \/ NewDownloader
    \/ NextUserAgent

InitRot ==
    /\ file = [kind |-> "missing", data |-> DefaultTracked]
    /\ ddIn = <<>>
    /\ call = NoCall
    /\ InitRest

SpecRot == InitRot /\ [][NextRot]_vars

(***************************************************************************)
(* The version dedup alone, on every list of sample releases               *)
(***************************************************************************)
Sample(id, version, build_number) ==
    [build_id |-> id, build_number |-> build_number, version |-> version,
     title |-> <<"W","i","n","d","o","w","s"," ","1","1"," ">> \o version, iso_url |-> <<"x","/">> \o id,
     detected_date |-> isoformat(0), architecture |-> <<"a","m","d","6","4">>,
     channel |-> <<"r","e","t","a","i","l">>, language |-> <<"e","n","-","u","s">>]

SampleA == Sample(<<"a">>, <<"2","4","H","2">>, <<"2","6","1","0","0",".","1","0">>)
SampleB == Sample(<<"b">>, <<"2","4","H","2">>, <<"2","6","1","0","0",".","2","0">>)
SampleC == Sample(<<"c">>, <<"2","5","H","2">>, <<"2","6","2","0","0",".","1">>)
SampleD == Sample(<<"d">>, <<"2","4","H","2">>, <<"L","a","t","e","s","t">>)
SampleE == Sample(<<"e">>, <<"2","5","H","2">>, <<"U","n","k","n","o","w","n">>)

SampleReleases == {SampleA, SampleB, SampleC, SampleD, SampleE}

ReleaseLists == UNION {[1..n -> SampleReleases] : n \in 0..MaxLen}

InitDedup ==
    /\ file = [kind |-> "missing", data |-> DefaultTracked]
    /\ ddIn \in ReleaseLists
    /\ call = NoCall
    /\ InitRest

ApplyDedup ==
    /\ ~ddDone
    /\ ddOut' = _deduplicate_by_version(ddIn)
    /\ ddDone' = TRUE
    /\ UNCHANGED <<ddIn, pc, session>>
    /\ UNCHANGED pure_vars
    /\ UNCHANGED detector_vars
    /\ UNCHANGED rotator_vars

NextDedup == ApplyDedup

SpecDedup == InitDedup /\ [][NextDedup]_vars

(***************************************************************************)
(* The reconciliation alone: the statements of detect_new_releases after   *)
(* the loop over the sources, on every list of at most MaxLen sample       *)
(* records the two sources may have yielded to a first cycle               *)
(***************************************************************************)
InitReconcile ==
    /\ file = [kind |-> "missing", data |-> DefaultTracked]
    /\ tracked_data = DefaultTracked
    /\ now = HourMinutes
    /\ ticks = 0
    /\ calls = 1
    /\ pc = "reconcile"
    /\ all_releases \in ReleaseLists
    /\ _agent_pool = USER_AGENTS
    /\ _agent_index = 1
    /\ session = NoSession
    /\ cycle = [NoCycle EXCEPT !.outcome = "running", !.at = HourMinutes, !.agents = 0,
                               !.invoked = <<"microsoft_direct", "uupdump">>,
                               !.direct = "ok", !.uupdump = "ok"]
    /\ returned = <<>>
    /\ completed = 0
    /\ agent_log = <<USER_AGENTS[1]>>
    /\ shuffles = 1
    /\ loaded = DefaultTracked
    /\ ddIn = <<>>
    /\ ddDone = FALSE
    /\ ddOut = <<>>
    /\ call = NoCall
    /\ result = <<>>

NextReconcile == Reconcile

SpecReconcile == InitReconcile /\ [][NextReconcile]_vars

(***************************************************************************)
(* Single functions, applied to inputs drawn from bounded sets              *)
(***************************************************************************)
\* everything a single function leaves alone
FrameOfCall ==
    /\ UNCHANGED <<pc, session>>
    /\ UNCHANGED detector_vars
    /\ UNCHANGED rotator_vars
    /\ UNCHANGED dedup_vars

Call(fn, args) == [fn |-> fn, args |-> args, done |-> FALSE]

InitCall(calls_) ==
    /\ file = [kind |-> "missing", data |-> DefaultTracked]
    /\ ddIn = <<>>
    /\ call \in calls_
    /\ InitRest

\* every sequence of at most n different members of S
DistinctSeqs(S, n) ==
    {q \in UNION {[1..m -> S] : m \in 0..n} : \A i, j \in 1..Len(q) : q[i] = q[j] => i = j}

\* The API-listing adapter alone.  `builds` arrives as a mapping or as a
\* list of the same descriptors, or the request fails or has another shape.
ListedItems ==
    {Item(<<"1">>, Build1), Item(<<"2">>, Build2), Item(<<"3">>, Build3),
     Item(<<"x">>, Build6), Item(<<"0">>, Build5)}

ListedResponses ==
    {[kind |-> k, builds |-> b] :
        k \in {"builds_dict", "builds_list"}, b \in DistinctSeqs(ListedItems, MaxLen)}
        \cup {[kind |-> k, builds |-> <<>>] : k \in UupFailureKinds}

InitUup == InitCall({Call("_check_uupdump", r) : r \in ListedResponses})

CallCheckUupdump ==
    /\ call.fn = "_check_uupdump"
    /\ ~call.done
    /\ result' = _check_uupdump(call.args, now)
    /\ call' = [call EXCEPT !.done = TRUE]
    /\ FrameOfCall

NextUup == CallCheckUupdump

SpecUup == InitUup /\ [][NextUup]_vars

\* The matrix builder alone, on every list of sample releases
InitMatrix == InitCall({Call("generate_matrix", R) : R \in ReleaseLists})

CallGenerateMatrix ==
    /\ call.fn = "generate_matrix"
    /\ ~call.done
    /\ result' = generate_matrix(call.args)
    /\ call' = [call EXCEPT !.done = TRUE]
    /\ FrameOfCall

NextMatrix == CallGenerateMatrix

SpecMatrix == InitMatrix /\ [][NextMatrix]_vars

\* The comparator alone, on every triple of sample build-number strings:
\* well-formed ones, two that parse to the same tuple, and malformed ones
BuildStrings ==
    {<<"2","6","1","0","0",".","1","0","0">>, <<"2","6","1","0","0",".","9","9">>, <<"2","6","1","0","0">>, <<"2","6","1","0","0",".","0">>, <<"2","6","2","0","0",".","1">>,
     <<"L","a","t","e","s","t">>, <<"U","n","k","n","o","w","n">>, <<>>}

InitCompare ==
    InitCall({Call("_compare_builds", <<a, b, c>>) : a \in BuildStrings, b \in BuildStrings, c \in BuildStrings})

\* _compare_builds applied to the pairs of the triple
CallCompareBuilds ==
    /\ call.fn = "_compare_builds"
    /\ ~call.done
    /\ LET a == call.args[1]
           b == call.args[2]
           c == call.args[3]
       IN  result' = [ab |-> _compare_builds(a, b), ba |-> _compare_builds(b, a),
                      bc |-> _compare_builds(b, c), ac |-> _compare_builds(a, c),
                      aa |-> _compare_builds(a, a)]
    /\ call' = [call EXCEPT !.done = TRUE]
    /\ FrameOfCall

NextCompare == CallCompareBuilds

SpecCompare == InitCompare /\ [][NextCompare]_vars

\* The version resolver alone, on titles put together from a standalone
\* token, an explicit `version` phrase, a build token and a marker, each
\* present or not; a part is [text, label], label being the version the
\* part stands for (None for a part that stands for none)
Part(text, label) == [text |-> text, label |-> label]

StandaloneParts ==
    {Part(<<>>, None), Part(<<" ","2","2","H","2">>, <<"2","2","H","2">>), Part(<<" ","x","2","1","H","2","y">>, None)}

ExplicitParts ==
    {Part(<<>>, None), Part(<<","," ","v","e","r","s","i","o","n"," ","2","4","H","2">>, <<"2","4","H","2">>), Part(<<" ","V","e","r","s","i","o","n"," "," ","2","3","h","2","x">>, <<"2","3","H","2">>)}

TokenParts ==
    {Part(<<>>, None), Part(<<" ","(","2","6","1","0","0",".","1",")">>, <<"2","4","H","2">>), Part(<<" ","(","2","8","0","0","0",".","1",")">>, <<"I","n","s","i","d","e","r","-","2","8","x","x","x">>),
     Part(<<" ","(","1","2","3","4","5",")">>, None), Part(<<" ","(","O","S"," ","B","u","i","l","d"," ","2","6","1","0","0",".","2","0","3","3",")">>, None)}

MarkerParts ==
    {Part(<<>>, None), Part(<<" ","I","n","s","i","d","e","r">>, <<"I","n","s","i","d","e","r","-","P","r","e","v","i","e","w">>), Part(<<" ","P","R","E","V","I","E","W"," ","b","u","i","l","d">>, <<"I","n","s","i","d","e","r","-","P","r","e","v","i","e","w">>)}

Titles ==
    {[title |-> <<"W","i","n","d","o","w","s"," ","1","1">> \o s.text \o e.text \o t.text \o m.text,
      standalone |-> s.label, explicit |-> e.label, token |-> t.label, marker |-> m.label] :
        s \in StandaloneParts, e \in ExplicitParts, t \in TokenParts, m \in MarkerParts}

InitExtract == InitCall({Call("_extract_version", x) : x \in Titles})

CallExtractVersion ==
    /\ call.fn = "_extract_version"
    /\ ~call.done
    /\ result' = _extract_version(call.args.title)
    /\ call' = [call EXCEPT !.done = TRUE]
    /\ FrameOfCall

NextExtract == CallExtractVersion

SpecExtract == InitExtract /\ [][NextExtract]_vars

\* The version resolver on titles without a version token that give a
\* five-digit build number, at and around the bounds of the range table,
\* directly after the parenthesis or after the words OS Build, with and
\* without an insider/preview marker
BuildNumbers ==
    {10000, 22620, 22621, 22630, 22631, 22999, 23000, 26099, 26100, 26199,
     26200, 26219, 26220, 26999, 27000, 27999, 28000, 28999, 29000, 99999}

\* the five decimal digits of n
FiveDigits(n) ==
    <<DigitChars[((n \div 10000) % 10) + 1], DigitChars[((n \div 1000) % 10) + 1],
      DigitChars[((n \div 100) % 10) + 1], DigitChars[((n \div 10) % 10) + 1],
      DigitChars[(n % 10) + 1]>>

Markers == {<<>>, <<" ","I","n","s","i","d","e","r"," ","P","r","e","v","i","e","w">>, <<" ","i","n","s","i","d","e","r">>, <<" ","P","R","E","V","I","E","W">>}

TokenForms == {<<" ","(">>, <<" ","(","O","S"," ","B","u","i","l","d"," ">>}

BuildTitles ==
    {[title |-> <<"W","i","n","d","o","w","s"," ","1","1">> \o m \o f \o FiveDigits(b) \o <<".","1",")">>,
      build |-> b, marker |-> m, form |-> f] :
        b \in BuildNumbers, m \in Markers, f \in TokenForms}

InitRange == InitCall({Call("_extract_version", x) : x \in BuildTitles})

SpecRange == InitRange /\ [][NextExtract]_vars

\* The identity dedup alone, on every list of sample candidates, three of
\* which carry the same build_id
SampleA2 == Sample(<<"a">>, <<"2","4","H","2">>, <<"2","6","1","0","0",".","3","0">>)
SampleA3 == Sample(<<"a">>, <<"2","5","H","2">>, <<"2","6","2","0","0",".","1">>)

CandidateLists == UNION {[1..n -> {SampleA, SampleA2, SampleA3, SampleB, SampleC}] : n \in 0..MaxLen}

InitIdentity == InitCall({Call("unique_releases", R) : R \in CandidateLists})

\* `unique_releases = {r.build_id: r for r in all_releases}`, and the same
\* applied to its values
CallUniqueReleases ==
    /\ call.fn = "unique_releases"
    /\ ~call.done
    /\ result' = [once |-> unique_releases(call.args),
                  twice |-> unique_releases(unique_releases(call.args))]
    /\ call' = [call EXCEPT !.done = TRUE]
    /\ FrameOfCall

NextIdentity == CallUniqueReleases

SpecIdentity == InitIdentity /\ [][NextIdentity]_vars

(***************************************************************************)
(* Claims                                                                  *)
(***************************************************************************)
SeqSet(seq) == {seq[i] : i \in 1..Len(seq)}

Candidates == cycle.direct_out \o cycle.uup_out

DirectFailed == cycle.direct \in {"aborted", "no_href"}

\* C1: a build_id that is a key of builds when a cycle starts is never in the
\* list detect_new_releases returns for that cycle.
C1_TrackedNeverReturned ==
    cycle.outcome = "completed" =>
        \A i \in 1..Len(returned) : returned[i].build_id \notin DOMAIN cycle.start.builds

\* C2: the output of _deduplicate_by_version has at most one record per
\* version, the kept record's build number compares >= that of every input
\* record of its version, and of 24H2/26100.10, 24H2/26100.20, 25H2/26200.1
\* (in any order) two records are kept, the 24H2 one carrying 26100.20.
C2_VersionDedup ==
    ddDone =>
        /\ \A i, j \in 1..Len(ddOut) : ddOut[i].version = ddOut[j].version => i = j
        /\ \A i \in 1..Len(ddOut) : \A j \in 1..Len(ddIn) :
              ddIn[j].version = ddOut[i].version =>
                  _compare_builds(ddOut[i].build_number, ddIn[j].build_number) >= 0
        /\ (Len(ddIn) = 3 /\ SeqSet(ddIn) = {SampleA, SampleB, SampleC}) =>
              /\ Len(ddOut) = 2
              /\ \E i \in 1..2 : ddOut[i].version = <<"2","4","H","2">> /\ ddOut[i].build_number = <<"2","6","1","0","0",".","2","0">>

C2_Witness ==
    /\ ddDone
    /\ ddIn = <<SampleB, SampleC, SampleA>>
    /\ Len(ddOut) = 2

\* C3: check_count is its loaded value plus the number of cycles that passed
\* the rate gate and returned; such a cycle adds exactly 1 whatever it found,
\* a skipped call adds nothing.
C3_CheckCount ==
    /\ pc # "new" => tracked_data.check_count = loaded.check_count + completed
    /\ cycle.outcome = "completed" => tracked_data.check_count = cycle.start.check_count + 1
    /\ cycle.outcome \in {"skipped", "running"} =>
          tracked_data.check_count = cycle.start.check_count

C3_Witness ==
    /\ completed = 2
    /\ cycle.outcome = "completed"
    /\ returned = <<>>
    /\ cycle.uupdump = "failed"

\* the claim's condition at the time of the call
CalledWithinTheHour ==
    /\ ~cycle.force
    /\ Truthy(cycle.start.last_check)
    /\ cycle.at - fromisoformat(cycle.start.last_check) < HourMinutes

\* C4: a call without force less than 1 hour after last_check returns the
\* empty list, invokes no adapter, takes no user agent and leaves builds,
\* last_check, check_count and the file as they were; any other call runs
\* the cycle.
C4_RateGate ==
    /\ (cycle.outcome # "none" /\ CalledWithinTheHour) =>
          /\ cycle.outcome = "skipped"
          /\ returned = <<>>
          /\ cycle.invoked = <<>>
          /\ Len(agent_log) = cycle.agents
          /\ tracked_data = cycle.start
          /\ file = cycle.start_file
    /\ (cycle.outcome # "none" /\ ~CalledWithinTheHour) =>
          cycle.outcome \in {"running", "completed"}

C4_Witness ==
    /\ cycle.outcome = "skipped"
    /\ completed = 1
    /\ cycle.at = fromisoformat(tracked_data.last_check) + (HourMinutes \div 2)

C6_BothSources ==
    /\ pc \in {"session", "uupdump"} => cycle.invoked = <<"microsoft_direct">>
    /\ (pc = "reconcile" \/ cycle.outcome = "completed") =>
          /\ cycle.invoked = <<"microsoft_direct", "uupdump">>
          /\ all_releases = cycle.direct_out \o cycle.uup_out
    /\ DirectFailed => cycle.direct_out = <<>>
    /\ cycle.uupdump = "failed" => cycle.uup_out = <<>>

C6_Witness ==
    /\ pc = "reconcile"
    /\ cycle.direct = "aborted"
    /\ Len(cycle.uup_out) = 3
    /\ all_releases = cycle.uup_out

\* the calls of round k (0-based) made so far
RoundCalls(k) ==
    (k * NumAgents + 1)..(IF (k + 1) * NumAgents < Len(agent_log)
                          THEN (k + 1) * NumAgents ELSE Len(agent_log))

\* C7: the calls k*N+1..(k+1)*N of _get_next_user_agent, counted over all
\* instances, return every catalog string exactly once, none twice within
\* a round, and the pool is reshuffled exactly when a round is exhausted.
C7_Rounds ==
    /\ \A k \in 0..(Len(agent_log) \div NumAgents) :
          /\ \A i, j \in RoundCalls(k) : agent_log[i] = agent_log[j] => i = j
          /\ (k + 1) * NumAgents <= Len(agent_log) =>
                {agent_log[i] : i \in RoundCalls(k)} = SeqSet(USER_AGENTS)
    /\ _agent_pool # <<>> => shuffles = 1 + (Len(agent_log) \div NumAgents)
    /\ _agent_index = Len(agent_log) % NumAgents

C7_Witness ==
    /\ Len(agent_log) = 2 * NumAgents + 1
    /\ shuffles = 3
    /\ agent_log[1] # agent_log[NumAgents + 1]

\* C8: no session returns with its browser open, on any exit path; a session
\* that launched a browser has closed it when it returns.
C8_BrowserClosed ==
    /\ session.state = "returned" =>
          /\ session.browser # "open"
          /\ session.playwright # "running"
          /\ (Len(session.steps) > StepIndex("launch") \/ session.url # None) =>
                session.browser = "closed"
    /\ pc # "session" => session.browser # "open"

C8_Witness ==
    /\ session.state = "returned"
    /\ session.failed = "wait_download"
    /\ session.browser = "closed"

\* C9: a timeout or error at a step ends the session at that step: the steps
\* executed are a prefix of the step list ending with the failed one, nothing
\* is retried, the session returns None, get_all_versions returns the empty
\* list and the direct source contributes no candidate.
C9_AbortAtStep ==
    /\ session.steps = SubSeq(StepNames, 1, Len(session.steps))
    /\ (session.state = "returned" /\ session.failed # "") =>
          /\ session.result = None
          /\ session.steps[Len(session.steps)] = session.failed
          /\ get_all_versions(session.result, now) = <<>>
    /\ cycle.direct = "aborted" => cycle.direct_out = <<>>
    /\ Len(agent_log) - cycle.agents <= 1

C9_Witness ==
    /\ session.state = "returned"
    /\ session.failed = "wait_languages"
    /\ Len(session.steps) = StepIndex("wait_languages")

\* C10: builds never loses a key; after a cycle that passed the gate it holds
\* the build_id of every candidate of either adapter, superseded ones
\* included, and the returned set has exactly one record per version.
C10_KeysKept ==
    /\ pc # "new" => DOMAIN loaded.builds \subseteq DOMAIN tracked_data.builds
    /\ cycle.outcome # "none" =>
          DOMAIN cycle.start.builds \subseteq DOMAIN tracked_data.builds
    /\ cycle.outcome = "completed" =>
          /\ \A i \in 1..Len(Candidates) :
                Candidates[i].build_id \in DOMAIN tracked_data.builds
          /\ \A i, j \in 1..Len(returned) :
                returned[i].version = returned[j].version => i = j
          /\ {returned[i].version : i \in 1..Len(returned)}
                = {Candidates[i].version : i \in 1..Len(Candidates)}

C10_Witness ==
    /\ cycle.outcome = "completed"
    /\ \E i \in 1..Len(Candidates) :
          /\ Candidates[i].build_id \notin {returned[j].build_id : j \in 1..Len(returned)}
          /\ Candidates[i].build_id \notin DOMAIN cycle.start.builds
          /\ Candidates[i].build_id \in DOMAIN tracked_data.builds


\* C11: the API-listing adapter yields for a list of build descriptors the
\* candidates it yields for the same descriptors in a keyed mapping, and the
\* empty list for every other shape and every failure of the request.
C11_ListOrMapping ==
    (call.fn = "_check_uupdump" /\ call.done) =>
        /\ call.args.kind = "builds_list" =>
              result = _check_uupdump([call.args EXCEPT !.kind = "builds_dict"], now)
        /\ call.args.kind \in UupFailureKinds => result = <<>>
\* C12: loading never fails: from a tracking file that is missing or holds
\* no well-formed tracking object _load_tracked yields the empty default,
\* and the detection cycle that follows does not raise.
C12_LoadTolerant ==
    /\ (pc = "idle" /\ calls = 0) => loaded = DefaultTracked
    /\ pc # "raised"
\* the entries generate_matrix made for the i-th release of its input
MatrixBlock(i) == (6 * (i - 1) + 1)..(6 * i)

\* C13: generate_matrix(R) has exactly 6 * |R| entries: for each release one
\* entry for each pair of a build type (standard, core, nano) and an edition
\* (1, 6), carrying the release's version, build number and ISO URL, with
\* edition_name Home exactly when edition = 1.
C13_MatrixSize ==
    (call.fn = "generate_matrix" /\ call.done) =>
        /\ Len(result.include) = 6 * Len(call.args)
        /\ \A i \in 1..Len(call.args) :
              /\ \A build_type \in {<<"s","t","a","n","d","a","r","d">>, <<"c","o","r","e">>, <<"n","a","n","o">>} :
                 \A edition \in {1, 6} :
                    Cardinality({k \in MatrixBlock(i) :
                                    /\ result.include[k].build_type = build_type
                                    /\ result.include[k].edition = edition}) = 1
              /\ \A k \in MatrixBlock(i) :
                    /\ result.include[k].version = call.args[i].version
                    /\ result.include[k].build = call.args[i].build_number
                    /\ result.include[k].iso_url = call.args[i].iso_url
                    /\ (result.include[k].edition_name = <<"H","o","m","e">>)
                          <=> (result.include[k].edition = 1)

C13_Witness ==
    /\ call.fn = "generate_matrix"
    /\ call.done
    /\ call.args = <<SampleA, SampleB, SampleA>>
    /\ Len(result.include) = 18
\* C14: for all build-number strings a and b, well-formed or malformed,
\* _compare_builds(a, b) = -_compare_builds(b, a), _compare_builds(a, a) = 0
\* and the result is one of -1, 0, 1.
C14_Antisymmetric ==
    (call.fn = "_compare_builds" /\ call.done) =>
        /\ result.ab = -result.ba
        /\ result.aa = 0
        /\ result.ab \in {-1, 0, 1}

C14_Witness ==
    /\ call.fn = "_compare_builds"
    /\ call.done
    /\ call.args[1] = <<"2","6","1","0","0",".","1","0","0">>
    /\ call.args[2] = <<"2","6","1","0","0",".","9","9">>
    /\ result.ab = 1
    /\ result.ba = -1

\* C15: _compare_builds is a total preorder over all build-number strings,
\* malformed ones included: from compare(a, b) >= 0 and compare(b, c) >= 0
\* follows compare(a, c) >= 0, and from compare(a, b) = 0 and compare(b, c) = 0
\* follows compare(a, c) = 0.
C15_Transitive ==
    (call.fn = "_compare_builds" /\ call.done) =>
        /\ (result.ab >= 0 /\ result.bc >= 0) => result.ac >= 0
        /\ (result.ab = 0 /\ result.bc = 0) => result.ac = 0
\* C16: _extract_version is a first-match-wins decision list: the token of
\* the explicit `version` phrase, else the standalone token, else the label
\* of the range of the build token, else the insider/preview marker, else
\* Unknown; an earlier rule overrides every later one and the result is
\* never empty.
C16_DecisionList ==
    (call.fn = "_extract_version" /\ call.done) =>
        /\ result # <<>>
        /\ result = (IF call.args.explicit # None THEN call.args.explicit
                     ELSE IF call.args.standalone # None THEN call.args.standalone
                     ELSE IF call.args.token # None THEN call.args.token
                     ELSE IF call.args.marker # None THEN call.args.marker
                     ELSE <<"U","n","k","n","o","w","n">>)
        /\ call.args.title = <<"W","i","n","d","o","w","s"," ","1","1",","," ","v","e","r","s","i","o","n"," ","2","4","H","2"," ","(","O","S"," ","B","u","i","l","d"," ","2","6","1","0","0",".","2","0","3","3",")">>
              => result = <<"2","4","H","2">>

\* a title with `version 24H2`, a standalone token before it, a build token
\* of another range and the word Insider
C16_Witness ==
    /\ call.fn = "_extract_version"
    /\ call.done
    /\ call.args.explicit = <<"2","4","H","2">>
    /\ call.args.standalone = <<"2","2","H","2">>
    /\ call.args.token = <<"I","n","s","i","d","e","r","-","2","8","x","x","x">>
    /\ call.args.marker # None
    /\ result = <<"2","4","H","2">>
\* C17: identity dedup keeps at most one record per build_id, for an id that
\* occurs several times the candidate collected last, and applied to its own
\* output it returns the same set of records.
C17_IdentityDedup ==
    (call.fn = "unique_releases" /\ call.done) =>
        /\ \A i, j \in 1..Len(result.once) :
              result.once[i].build_id = result.once[j].build_id => i = j
        /\ {result.once[i].build_id : i \in 1..Len(result.once)}
              = {call.args[i].build_id : i \in 1..Len(call.args)}
        /\ \A i \in 1..Len(result.once) :
              \E j \in 1..Len(call.args) :
                 /\ call.args[j] = result.once[i]
                 /\ \A k \in (j + 1)..Len(call.args) :
                       call.args[k].build_id # result.once[i].build_id
        /\ SeqSet(result.twice) = SeqSet(result.once)

C17_Witness ==
    /\ call.fn = "unique_releases"
    /\ call.done
    /\ call.args = <<SampleA, SampleB, SampleA2>>
    /\ SeqSet(result.once) = {SampleA2, SampleB}
    /\ SeqSet(result.twice) = {SampleA2, SampleB}
StepsOf(state) ==
    CASE state = "Launch" -> {"start_playwright", "user_agent", "launch"}
      [] state = "Navigate" -> {"goto"}
      [] state = "AwaitEditionControl" -> {"wait_edition"}
      [] state = "SelectEdition" -> {"select_edition"}
      [] state = "SubmitEdition" -> {"click_edition"}
      [] state = "AwaitLanguageControl" -> {"wait_languages", "count_languages"}
      [] state = "SelectLanguage" -> {"select_language"}
      [] state = "SubmitLanguage" -> {"click_sku"}
      [] state = "AwaitDownloadButtons" -> {"wait_download"}
      [] state = "SelectAndExtract" -> {"get_href"}
      [] state = "ValidateAndClose" -> {"close"}

SessionStates ==
    <<"Launch", "Navigate", "AwaitEditionControl", "SelectEdition", "SubmitEdition",
      "AwaitLanguageControl", "SelectLanguage", "SubmitLanguage", "AwaitDownloadButtons",
      "SelectAndExtract", "ValidateAndClose">>

\* the places in session.steps at which a statement of the state was executed
Executed(state) == {i \in 1..Len(session.steps) : session.steps[i] \in StepsOf(state)}

C20_NoImmediateRepeat ==
    \A i \in 1..(Len(agent_log) - 1) : agent_log[i] # agent_log[i + 1]
\* the build_id get_all_versions synthesizes for the link the running (or
\* last) cycle extracted
LinkId == DirectBuildId(UrlVersion(cycle.href), cycle.at)

\* the cycle extracted a link whose build_id was tracked with another link
\* when the cycle started: the same inferred version on the same calendar day
SecondLinkOfTheDay ==
    /\ cycle.outcome = "completed"
    /\ Truthy(cycle.href)
    /\ LinkId \in DOMAIN cycle.start.builds
    /\ cycle.start.builds[LinkId].iso_url # cycle.href

\* C21 as stated: two distinct links of one version extracted on one day get
\* the same build_id and after the second cycle the entry of that build_id
\* holds the later link.
C21_LaterLinkKept ==
    SecondLinkOfTheDay => tracked_data.builds[LinkId].iso_url = cycle.href

\* C21, amended: two distinct links of one version extracted on one day get
\* the same build_id and the later link is discarded: the direct adapter
\* skips it as already tracked, the cycle returns no record of that build_id
\* and the entry keeps the earlier link.
C21_EarlierLinkKept ==
    SecondLinkOfTheDay =>
        /\ cycle.direct_out = <<>>
        /\ tracked_data.builds[LinkId] = cycle.start.builds[LinkId]
        /\ \A i \in 1..Len(returned) : returned[i].build_id # LinkId

C21_Witness ==
    /\ SecondLinkOfTheDay
    /\ cycle.href = UrlB
    /\ tracked_data.builds[LinkId].iso_url = UrlA
\* position at which a kept record was first seen in the input
FirstSeen(release) == CHOOSE j \in 1..Len(ddIn) :
    ddIn[j] = release /\ \A h \in 1..(j - 1) : ddIn[h] # release

\* the input positions holding a candidate of the version of a kept record
SameVersion(release) == {j \in 1..Len(ddIn) : ddIn[j].version = release.version}

\* C22: the record _deduplicate_by_version keeps for a version compares
\* greatest (no candidate of the version compares greater), it is the
\* first-seen of the candidates it compares equal to, malformed build numbers
\* included, and its build number is the greatest of the version: it compares
\* greater than every candidate that some candidate compares greater than.
C22_KeptIsGreatest ==
    ddDone =>
        \A i \in 1..Len(ddOut) : \A j \in SameVersion(ddOut[i]) :
            /\ _compare_builds(ddOut[i].build_number, ddIn[j].build_number) >= 0
            /\ _compare_builds(ddOut[i].build_number, ddIn[j].build_number) = 0 =>
                  FirstSeen(ddOut[i]) <= j
            /\ (\E h \in SameVersion(ddOut[i]) :
                    _compare_builds(ddIn[h].build_number, ddIn[j].build_number) = 1) =>
                  _compare_builds(ddOut[i].build_number, ddIn[j].build_number) = 1
\* the (major, minor) pairs the well-formed sample strings denote
WellFormedPairs ==
    {<<<<"2","6","1","0","0",".","1","0","0">>, <<26100, 100>>>>, <<<<"2","6","1","0","0",".","9","9">>, <<26100, 99>>>>,
     <<<<"2","6","1","0","0">>, <<26100, 0>>>>, <<<<"2","6","1","0","0",".","0">>, <<26100, 0>>>>,
     <<<<"2","6","2","0","0",".","1">>, <<26200, 1>>>>}

\* sign of the lexicographic comparison of two integer pairs
LexSign(x, y) ==
    IF x[1] # y[1] THEN (IF x[1] > y[1] THEN 1 ELSE -1)
    ELSE IF x[2] # y[2] THEN (IF x[2] > y[2] THEN 1 ELSE -1)
    ELSE 0

\* C23: for well-formed strings MAJOR[.MINOR] _compare_builds(a, b) is the
\* sign of the lexicographic comparison of (major, minor) as integer pairs, a
\* missing minor being 0: compare("26100.100", "26100.99") = 1 and
\* compare("26100", "26100.0") = 0.
C23_Lexicographic ==
    (call.fn = "_compare_builds" /\ call.done) =>
        /\ \A p, q \in WellFormedPairs :
              (call.args[1] = p[1] /\ call.args[2] = q[1]) =>
                  result.ab = LexSign(p[2], q[2])
        /\ (call.args[1] = <<"2","6","1","0","0",".","1","0","0">> /\ call.args[2] = <<"2","6","1","0","0",".","9","9">>) => result.ab = 1
        /\ (call.args[1] = <<"2","6","1","0","0">> /\ call.args[2] = <<"2","6","1","0","0",".","0">>) => result.ab = 0

C23_Witness ==
    /\ call.fn = "_compare_builds"
    /\ call.done
    /\ call.args[1] = <<"2","6","2","0","0",".","1">>
    /\ call.args[2] = <<"2","6","1","0","0",".","1","0","0">>
    /\ result.ab = 1
    /\ result.bc = LexSign(<<26100, 100>>, <<26100, 0>>)
    /\ call.args[3] = <<"2","6","1","0","0">>

\* C24: a build-number string with a non-numeric or empty segment is
\* compared as (0, 0) and never makes _compare_builds raise: against a
\* well-formed string greater than (0, 0) the result is that of comparing
\* (0, 0) with it, and two malformed strings compare 0.
C24_MalformedIsZeroZero ==
    (call.fn = "_compare_builds" /\ call.done) =>
        LET a == call.args[1]
            b == call.args[2]
        IN  /\ result.ab \in {-1, 0, 1}
            /\ (ParseRaises(a) /\ ParseRaises(b)) => result.ab = 0
            /\ \A q \in WellFormedPairs :
                  (ParseRaises(a) /\ b = q[1]) =>
                      /\ result.ab = LexSign(<<0, 0>>, q[2])
                      /\ result.ba = LexSign(q[2], <<0, 0>>)
\* _extract_version was applied to a title that gives a build number
RangeCall == call.fn = "_extract_version" /\ call.done /\ "build" \in DOMAIN call.args

\* C25: for a title without a version token whose parenthesis opens with the
\* five digits b the range table is first-match-wins in its written order:
\* 24H2 for 26100..26199, 25H2 for 26200..26999, 22H2 for 22621..22999 (and
\* Insider-28xxx for 28000..28999); no b yields 23H2 or Insider-26H2; a b
\* outside every range falls to the insider/preview marker, then to Unknown.
C25_RangeTable ==
    (RangeCall /\ call.args.form = <<" ","(">>) =>
        LET b == call.args.build
        IN  /\ result \notin {<<"2","3","H","2">>, <<"I","n","s","i","d","e","r","-","2","6","H","2">>}
            /\ result =
                  (IF 26100 <= b /\ b <= 26199 THEN <<"2","4","H","2">>
                   ELSE IF 26200 <= b /\ b <= 26999 THEN <<"2","5","H","2">>
                   ELSE IF 22621 <= b /\ b <= 22999 THEN <<"2","2","H","2">>
                   ELSE IF 28000 <= b /\ b <= 28999 THEN <<"I","n","s","i","d","e","r","-","2","8","x","x","x">>
                   ELSE IF call.args.marker # <<>> THEN <<"I","n","s","i","d","e","r","-","P","r","e","v","i","e","w">>
                   ELSE <<"U","n","k","n","o","w","n">>)

C25_Witness ==
    /\ RangeCall
    /\ call.args.title = <<"W","i","n","d","o","w","s"," ","1","1"," ","i","n","s","i","d","e","r"," ","(","2","6","2","2","0",".","1",")">>
    /\ result = <<"2","5","H","2">>

\* C26: a title without a version token that contains Insider or Preview and
\* gives its build number as (OS Build NNNNN.x) resolves to Insider-Preview
\* for every NNNNN, 26220 included: the build token must follow the
\* parenthesis directly.
C26_OsBuildForm ==
    (RangeCall /\ call.args.form = <<" ","(","O","S"," ","B","u","i","l","d"," ">> /\ call.args.marker # <<>>) =>
        result = <<"I","n","s","i","d","e","r","-","P","r","e","v","i","e","w">>

C26_Witness ==
    /\ RangeCall
    /\ call.args.title = <<"W","i","n","d","o","w","s"," ","1","1"," ","I","n","s","i","d","e","r"," ","P","r","e","v","i","e","w"," ","(","O","S"," ","B","u","i","l","d"," ","2","6","2","2","0",".","1",")">>
    /\ result = <<"I","n","s","i","d","e","r","-","P","r","e","v","i","e","w">>
\* an extraction session is under way
SessionRunning == pc = "session" /\ session.state = "running"

\* get_windows11_link returned, a URL or None, with the browser closed
SessionTerminal ==
    /\ session.state = "returned"
    /\ session.browser # "open"
    /\ session.result = None \/ Truthy(session.result)

\* detect_new_releases wrote the tracking file and returned
CycleFinished ==
    /\ cycle.outcome = "completed"
    /\ pc = "idle"
    /\ file = [kind |-> "object", data |-> tracked_data]

\* C27: when every wait, navigation and HTTP request completes or times out
\* and every pacing delay ends, every extraction session eventually reaches a
\* terminal state (URL returned or no result) and every detection cycle that
\* passed the rate gate eventually persists the tracking state and returns,
\* a session that timed out included.
C27_Terminates ==
    /\ SessionRunning ~> SessionTerminal
    /\ (cycle.outcome = "running") ~> CycleFinished

C27_Witness ==
    /\ CycleFinished
    /\ cycle.direct = "aborted"
    /\ cycle.invoked = <<"microsoft_direct", "uupdump">>
    /\ tracked_data.check_count = cycle.start.check_count + 1
\* the versions of a list of records, in the order of their first appearance
RECURSIVE VersionsInOrder(_)
VersionsInOrder(releases) ==
    IF releases = <<>> THEN <<>>
    ELSE LET before == VersionsInOrder(SubSeq(releases, 1, Len(releases) - 1))
             last == releases[Len(releases)].version
         IN  IF last \in SeqSet(before) THEN before ELSE Append(before, last)

\* C28: _deduplicate_by_version neither invents nor loses versions: every
\* record of its output is a record of its input, unmodified, the output has
\* exactly one record for each version of the input, in the order in which
\* the versions first appear in the input; and every record
\* detect_new_releases returns has its build_id in the builds of the
\* tracking store, in memory and in the file, when the cycle ends.
C28_DedupKeepsVersions ==
    cycle.outcome = "completed" =>
        /\ \A i \in 1..Len(returned) : \E j \in 1..Len(cycle.unique) : returned[i] = cycle.unique[j]
        /\ [i \in 1..Len(returned) |-> returned[i].version] = VersionsInOrder(cycle.unique)
        /\ \A i \in 1..Len(returned) :
              /\ returned[i].build_id \in DOMAIN tracked_data.builds
              /\ tracked_data.builds[returned[i].build_id] = returned[i]
              /\ file.data = tracked_data

C28_Witness ==
    /\ cycle.outcome = "completed"
    /\ cycle.unique = <<SampleA, SampleC, SampleB>>
    /\ returned = <<SampleB, SampleC>>
    /\ DOMAIN tracked_data.builds = {SampleA.build_id, SampleB.build_id, SampleC.build_id}

====
